---- MODULE Spec2Model ----
(***************************************************************************)
(* A model of web_dashboard/static/js/dashboard.js: the SmartHVACDashboard *)
(* object (its per-sensor buffers, the data handed to the two charts, the  *)
(* connection flag, the health-check interval, the bulk loads in flight)   *)
(* and the global acknowledge / resolve functions.                         *)
(*                                                                         *)
(* A JavaScript object used as a map (this.sensorsData) is a sequence of   *)
(* [id, points] entries in property-creation order; ObjectKeys gives the   *)
(* order in which Object.keys / Object.values enumerate it.  A Date is the *)
(* number getTime() returns, counted in ticks; an absent payload field is  *)
(* a flag of the payload record.  The DOM outside the two charts (sensor   *)
(* cards, building map, status banner text, animations) is not modelled.   *)
(***************************************************************************)
EXTENDS Integers, Sequences, FiniteSets, TLC

VARIABLES
    sensorsData,          \* this.sensorsData: <<[id, points]>> in creation order
    charts,               \* this.charts: temperature and humidity chart data
    isConnected,          \* this.isConnected
    healthCheckInterval,  \* TRUE while the setInterval of startHealthCheck is set
    socketOpen,           \* FALSE once cleanup() has called socket.disconnect()
    inFlight,             \* number of loadInitialData() calls not yet settled
    alerts,               \* the alert list kept by updateAlerts / addNewAlert
    systemStatus,         \* the status configuration shown by updateSystemStatus
    pendingActions,       \* acknowledge / resolve requests not yet answered
    received,             \* history: per sensor id, every reading pushed so far
    firstSeen,            \* history: sensor ids in order of first observation
    last                  \* history: what the last step was and what it gave out;
                          \* last.silent counts the health-check ticks in a row

vars == <<sensorsData, charts, isConnected, healthCheckInterval, socketOpen,
          inFlight, alerts, systemStatus, pendingActions, received, firstSeen,
          last>>

(***************************************************************************)
(* Program constants.                                                      *)
(***************************************************************************)
MaxPoints == 50
TimelineWindow == 20
PaletteSize == 8

(***************************************************************************)
(* Bounds of the model.                                                    *)
(***************************************************************************)
MaxReadings == 3
MaxSessionReadings == 1
MaxTime == 3
MaxStream == 52
MaxSideStream == 4
MaxInFlight == 2
MaxAlerts == 1
MaxPending == 1
MaxSilentTicks == 2
MaxFrameReadings == 2
TicksPerMinute == 2

(***************************************************************************)
(* Input domains.                                                          *)
(***************************************************************************)
NamedIds == {"hvac_office_a1", "hvac_kitchen"}
NumericIds == {"7", "3"}
AllIds == NamedIds \cup NumericIds
Times == 1..MaxTime
Malformed == {"flat", "missing"}

Min(a, b) == IF a < b THEN a ELSE b

(***************************************************************************)
(* JavaScript objects as maps.                                             *)
(***************************************************************************)
Ids(obj) == {obj[i].id : i \in 1..Len(obj)}
Has(obj, id) == id \in Ids(obj)
Slot(obj, id) == CHOOSE i \in 1..Len(obj) : obj[i].id = id
Get(obj, id) == obj[Slot(obj, id)].points
Put(obj, id, points) ==
    IF Has(obj, id)
    THEN [obj EXCEPT ![Slot(obj, id)].points = points]
    ELSE Append(obj, [id |-> id, points |-> points])

\* The array index a property key denotes, -1 when it is not an array index.
ArrayIndex(id) ==
    CASE id = "3" -> 3
      [] id = "7" -> 7
      [] OTHER -> -1

RECURSIVE AscendingKeys(_)
AscendingKeys(S) ==
    IF S = {} THEN <<>>
    ELSE LET m == CHOOSE x \in S : \A y \in S : ArrayIndex(x) <= ArrayIndex(y)
         IN <<m>> \o AscendingKeys(S \ {m})

CreationOrder(obj) == [i \in 1..Len(obj) |-> obj[i].id]

IsIndexKey(id) == ArrayIndex(id) >= 0
IsNameKey(id) == ArrayIndex(id) < 0

\* Object.keys: array-index keys ascending, then the other keys as created.
ObjectKeys(obj) ==
    AscendingKeys({id \in Ids(obj) : IsIndexKey(id)}) \o SelectSeq(CreationOrder(obj), IsNameKey)

(***************************************************************************)
(* Array helpers.                                                          *)
(***************************************************************************)
\* Array.prototype.slice(-n)
SliceLast(seq, n) ==
    IF Len(seq) <= n THEN seq ELSE SubSeq(seq, Len(seq) - n + 1, Len(seq))

RECURSIVE Flat(_, _)
\* Object.values(obj).flat(): the points of every entry, in key order
Flat(obj, keys) ==
    IF keys = <<>> THEN <<>>
    ELSE Get(obj, Head(keys)) \o Flat(obj, Tail(keys))

RECURSIVE InsertAscending(_, _)
InsertAscending(sorted, t) ==
    IF sorted = <<>> THEN <<t>>
    ELSE IF t < Head(sorted) THEN <<t>> \o sorted
    ELSE <<Head(sorted)>> \o InsertAscending(Tail(sorted), t)

RECURSIVE SortAscending(_)
\* Array.prototype.sort((a, b) => a - b): stable, ascending
SortAscending(seq) ==
    IF seq = <<>> THEN <<>>
    ELSE InsertAscending(SortAscending(SubSeq(seq, 1, Len(seq) - 1)), seq[Len(seq)])

RECURSIVE Distinct(_, _)
\* [...new Set(seq)]: first occurrences, in order
Distinct(seq, seen) ==
    IF seq = <<>> THEN <<>>
    ELSE IF Head(seq) \in seen THEN Distinct(Tail(seq), seen)
    ELSE <<Head(seq)>> \o Distinct(Tail(seq), seen \cup {Head(seq)})


(***************************************************************************)
(* Readings and the aggregation pass (updateCharts).                       *)
(***************************************************************************)
Point_HumidityFromTemperature(data) ==
    [timestamp |-> data.timestamp, temperature |-> data.temperature,
     humidity |-> data.temperature, co2 |-> data.co2]

\* The point handleRealtimeData pushes for a payload of the nested shape.
Point(data) ==
    [timestamp |-> data.timestamp, temperature |-> data.temperature,
     humidity |-> data.humidity, co2 |-> data.co2]

getSensorName(sensorId) ==
    CASE sensorId = "hvac_office_a1" -> "Office A1"
      [] sensorId = "hvac_kitchen" -> "Kitchen"
      [] OTHER -> sensorId

\* toLocaleTimeString('en-US', {hour, minute}): the minute the instant is in
toLocaleTimeString(t) == t \div TicksPerMinute

allTimestamps(sd) ==
    LET flat == Flat(sd, ObjectKeys(sd))
    IN SortAscending([i \in 1..Len(flat) |-> flat[i].timestamp])

uniqueTimestamps_Oldest(sd) ==
    LET all == Distinct(allTimestamps(sd), {})
    IN SubSeq(all, 1, Min(Len(all), TimelineWindow))

\* [...new Set(allTimestamps.map(t => t.getTime()))].map(...).slice(-20)
uniqueTimestamps(sd) == SliceLast(Distinct(allTimestamps(sd), {}), TimelineWindow)

InTimeline(timestamps, d) == \E i \in 1..Len(timestamps) : timestamps[i] = d.timestamp

\* this.sensorsData[sensorId].filter(d => timestamps.some(...))
sensorDataPoints(sd, sensorId, timestamps) ==
    LET Keep(d) == InTimeline(timestamps, d)
    IN SelectSeq(Get(sd, sensorId), Keep)

colorIndex(index) == (index - 1) % PaletteSize

temperatureDatasets(sd, timestamps) ==
    LET keys == ObjectKeys(sd)
    IN [i \in 1..Len(keys) |->
          LET pts == sensorDataPoints(sd, keys[i], timestamps)
          IN [label |-> getSensorName(keys[i]),
              data |-> [j \in 1..Len(pts) |-> pts[j].temperature],
              borderColor |-> colorIndex(i)]]

humidityDatasets(sd, timestamps) ==
    LET keys == ObjectKeys(sd)
    IN [i \in 1..Len(keys) |->
          LET pts == sensorDataPoints(sd, keys[i], timestamps)
          IN [label |-> getSensorName(keys[i]), metric |-> "Humidity",
              data |-> [j \in 1..Len(pts) |-> pts[j].humidity],
              borderColor |-> colorIndex(i), yAxisID |-> "y"]]

co2Datasets(sd, timestamps) ==
    LET keys == ObjectKeys(sd)
    IN [i \in 1..Len(keys) |->
          LET pts == sensorDataPoints(sd, keys[i], timestamps)
          IN [label |-> getSensorName(keys[i]), metric |-> "CO2",
              data |-> [j \in 1..Len(pts) |-> pts[j].co2],
              borderColor |-> colorIndex(i), yAxisID |-> "y1"]]

updateTemperatureChart(chart, sd, labels, timestamps) ==
    IF ~chart.present THEN chart
    ELSE [chart EXCEPT !.labels = labels,
                       !.datasets = temperatureDatasets(sd, timestamps)]

updateHumidityChart(chart, sd, labels, timestamps) ==
    IF ~chart.present THEN chart
    ELSE [chart EXCEPT !.labels = labels,
                       !.datasets = humidityDatasets(sd, timestamps)
                                    \o co2Datasets(sd, timestamps)]

\* The charts after updateCharts() runs on the store sd.
updateCharts(ch, sd) ==
    IF Len(sd) = 0 THEN ch
    ELSE LET timestamps == uniqueTimestamps(sd)
             labels == [i \in 1..Len(timestamps) |-> toLocaleTimeString(timestamps[i])]
         IN [temperature |-> updateTemperatureChart(ch.temperature, sd, labels, timestamps),
             humidity |-> updateHumidityChart(ch.humidity, sd, labels, timestamps)]

chartsUpdated_NoEarlyReturn(ch, sd) ==
    {c \in {"temperature", "humidity"} : ch[c].present}

\* The charts on which updateCharts() calls update('none').
chartsUpdated(ch, sd) ==
    IF Len(sd) = 0 THEN {}
    ELSE {c \in {"temperature", "humidity"} : ch[c].present}

trimPoints_KeepOldest(points) ==
    IF Len(points) > MaxPoints THEN SubSeq(points, 1, MaxPoints) ELSE points

\* Keep only last 50 points
trimPoints(points) ==
    IF Len(points) > MaxPoints THEN SliceLast(points, MaxPoints) ELSE points

NoRequest == [kind |-> "none", id |-> "none", listed |-> FALSE, response |-> "none"]

StepAbout(event, threw, notification, rendered, about) ==
    [event |-> event, threw |-> threw, notification |-> notification,
     rendered |-> rendered, about |-> about, silent |-> 0]

Step(event, threw, notification, rendered) ==
    StepAbout(event, threw, notification, rendered, NoRequest)

UNCHANGED_Connection ==
    UNCHANGED <<isConnected, healthCheckInterval, socketOpen, inFlight>>

UNCHANGED_Alerts == UNCHANGED <<alerts, systemStatus, pendingActions>>

pushPoint_Sorted(points, point) ==
    LET Earlier(d) == d.timestamp <= point.timestamp
        Later(d) == d.timestamp > point.timestamp
    IN SelectSeq(points, Earlier) \o <<point>> \o SelectSeq(points, Later)

\* this.sensorsData[sensorId].push(point)
pushPoint(points, point) == Append(points, point)

\* socket.on('realtime_data', data => this.handleRealtimeData(data))
handleRealtimeData(data) ==
    LET sensorId == data.sensor_id
        created == IF Has(sensorsData, sensorId) THEN sensorsData
                   ELSE Put(sensorsData, sensorId, <<>>)
        pushed == Put(created, sensorId,
                      trimPoints(pushPoint(Get(created, sensorId), Point(data))))
    IN /\ socketOpen
       /\ firstSeen' = IF Has(sensorsData, sensorId) THEN firstSeen
                       ELSE Append(firstSeen, sensorId)
       /\ IF data.shape = "nested"
          THEN /\ sensorsData' = pushed
               /\ charts' = updateCharts(charts, pushed)
               /\ received' = [received EXCEPT ![sensorId] = Append(@, Point(data))]
               /\ last' = Step("realtime_data", FALSE, "none",
                               chartsUpdated(charts, pushed))
          ELSE \* sensorData.data.temperature throws a TypeError
               /\ sensorsData' = created
               /\ last' = Step("realtime_data", TRUE, "none", {})
               /\ UNCHANGED <<charts, received>>
       /\ UNCHANGED_Connection
       /\ UNCHANGED_Alerts

\* dashboard.updateCharts() called on its own
updateChartsCall ==
    /\ charts' = updateCharts(charts, sensorsData)
    /\ last' = Step("updateCharts", FALSE, "none", chartsUpdated(charts, sensorsData))
    /\ UNCHANGED <<sensorsData, received, firstSeen>>
    /\ UNCHANGED_Connection
    /\ UNCHANGED_Alerts


(***************************************************************************)
(* The connection flag, the health check and the bulk load.                *)
(***************************************************************************)
UNCHANGED_Store == UNCHANGED <<sensorsData, charts, received, firstSeen>>

connect_AfterLoad ==
    /\ socketOpen
    /\ ~isConnected
    /\ isConnected' = (inFlight = 0)
    /\ last' = Step("connect", FALSE, "none", {})
    /\ UNCHANGED <<healthCheckInterval, socketOpen, inFlight>>
    /\ UNCHANGED_Store
    /\ UNCHANGED_Alerts

\* socket.on('connect', ...)
connect ==
    /\ socketOpen
    /\ ~isConnected
    /\ isConnected' = TRUE
    /\ last' = Step("connect", FALSE, "none", {})
    /\ UNCHANGED <<healthCheckInterval, socketOpen, inFlight>>
    /\ UNCHANGED_Store
    /\ UNCHANGED_Alerts

\* socket.on('disconnect', ...)
disconnect ==
    /\ socketOpen
    /\ isConnected
    /\ isConnected' = FALSE
    /\ last' = Step("disconnect", FALSE, "none", {})
    /\ UNCHANGED <<healthCheckInterval, socketOpen, inFlight>>
    /\ UNCHANGED_Store
    /\ UNCHANGED_Alerts

\* socket.on('error', ...)
socketError ==
    /\ socketOpen
    /\ last' = Step("error", FALSE, "error", {})
    /\ UNCHANGED_Connection
    /\ UNCHANGED_Store
    /\ UNCHANGED_Alerts

healthCheckReloads_WhenLive(connected) == connected

\* Whether the callback of startHealthCheck calls loadInitialData().
healthCheckReloads(connected) == ~connected

\* The step record of a health-check tick: one more tick in a row.
TickStep ==
    [Step("healthCheck", FALSE, "none", {})
        EXCEPT !.silent = Min(last.silent + 1, MaxSilentTicks)]

healthCheckTick_StaleOnSilence ==
    /\ healthCheckInterval
    /\ IF healthCheckReloads(isConnected)
       THEN /\ inFlight < MaxInFlight
            /\ inFlight' = inFlight + 1
       ELSE inFlight' = inFlight
    /\ last' = TickStep
    /\ isConnected' = (isConnected /\ last.silent + 1 < MaxSilentTicks)
    /\ UNCHANGED <<healthCheckInterval, socketOpen>>
    /\ UNCHANGED_Store
    /\ UNCHANGED_Alerts

\* One firing of the setInterval callback of startHealthCheck (every 30000 ms).
healthCheckTick ==
    /\ healthCheckInterval
    /\ IF healthCheckReloads(isConnected)
       THEN /\ inFlight < MaxInFlight
            /\ inFlight' = inFlight + 1
       ELSE inFlight' = inFlight
    /\ last' = TickStep
    /\ UNCHANGED <<isConnected, healthCheckInterval, socketOpen>>
    /\ UNCHANGED_Store
    /\ UNCHANGED_Alerts

\* handleKeyboardShortcuts: Ctrl+R or F5 calls loadInitialData()
refreshShortcut ==
    /\ inFlight < MaxInFlight
    /\ inFlight' = inFlight + 1
    /\ last' = Step("refresh", FALSE, "success", {})
    /\ UNCHANGED <<isConnected, healthCheckInterval, socketOpen>>
    /\ UNCHANGED_Store
    /\ UNCHANGED_Alerts

cleanup_KeepsInterval ==
    /\ socketOpen
    /\ socketOpen' = FALSE
    /\ isConnected' = FALSE
    /\ last' = Step("cleanup", FALSE, "none", {})
    /\ UNCHANGED <<inFlight, healthCheckInterval>>
    /\ UNCHANGED_Store
    /\ UNCHANGED_Alerts

\* cleanup(): clearInterval, then socket.disconnect(), which fires 'disconnect'
cleanup ==
    /\ socketOpen
    /\ healthCheckInterval' = FALSE
    /\ socketOpen' = FALSE
    /\ isConnected' = FALSE
    /\ last' = Step("cleanup", FALSE, "none", {})
    /\ UNCHANGED inFlight
    /\ UNCHANGED_Store
    /\ UNCHANGED_Alerts

(***************************************************************************)
(* Alerts, status and bulk state.                                          *)
(***************************************************************************)
AlertA == [id |-> "a1", severity |-> "WARNING"]
AlertB == [id |-> "a2", severity |-> "CRITICAL"]
AlertIds == {"a1", "a9"}
NewAlerts == {AlertB}
AlertLists == {<<>>, <<AlertA>>}
StatusNames == {"WARNING", "MALFUNCTION"}
SamplePoint == [timestamp |-> 1, temperature |-> 21, humidity |-> 40, co2 |-> 400]
SensorLists ==
    {<<[sensor_id |-> "hvac_kitchen", hasLatest |-> TRUE, latest_data |-> SamplePoint],
       [sensor_id |-> "hvac_office_a1", hasLatest |-> FALSE, latest_data |-> SamplePoint]>>}

\* The payloads of 'initial_data': each of sensors, system_status, alerts may be absent.
InitialPayloads ==
    [hasSensors : BOOLEAN, sensors : SensorLists,
     hasStatus : BOOLEAN, system_status : {"WARNING"},
     hasAlerts : BOOLEAN, alerts : AlertLists]

\* What a settled loadInitialData() got: a rejected fetch / json(), or two bodies.
LoadResults ==
    [rejected : {TRUE}, sensorsSuccess : {FALSE}, sensors : SensorLists,
     alertsSuccess : {FALSE}, alerts : {<<>>}]
    \cup [rejected : {FALSE}, sensorsSuccess : BOOLEAN, sensors : SensorLists,
          alertsSuccess : {TRUE}, alerts : AlertLists]
    \cup [rejected : {FALSE}, sensorsSuccess : BOOLEAN, sensors : SensorLists,
          alertsSuccess : {FALSE}, alerts : {<<>>}]

\* this.updateAlerts(list): the list replaces the alert list
updateAlerts(al, list) == list

\* this.addNewAlert(alert): new alerts prepend
addNewAlert(al, alert) == <<alert>> \o al

\* updateSystemStatus: statusConfigs[status] || statusConfigs['NORMAL']
updateSystemStatus(status) ==
    IF status \in {"NORMAL", "WARNING", "CRITICAL"} THEN status ELSE "NORMAL"

RECURSIVE pushLatest(_, _)
\* sd with the latest_data of every listed sensor pushed onto its buffer
pushLatest(sd, sensors) ==
    IF sensors = <<>> THEN sd
    ELSE LET e == Head(sensors)
             pts == IF Has(sd, e.sensor_id) THEN Get(sd, e.sensor_id) ELSE <<>>
         IN pushLatest(IF e.hasLatest
                       THEN Put(sd, e.sensor_id, trimPoints(Append(pts, e.latest_data)))
                       ELSE sd,
                       Tail(sensors))

initialDataStore_Appends(sd, data) ==
    IF data.hasSensors THEN pushLatest(sd, data.sensors) ELSE sd

\* this.sensorsData after handleInitialData(data)
initialDataStore(sd, data) == sd

\* the alert list after handleInitialData(data)
initialDataAlerts(al, data) ==
    IF data.hasAlerts THEN updateAlerts(al, data.alerts) ELSE al

loadedStore_Resets(sd, result) ==
    IF ~result.rejected /\ result.sensorsSuccess THEN <<>> ELSE sd

\* this.sensorsData after loadInitialData() settled with result
loadedStore(sd, result) == sd

\* the alert list after loadInitialData() settled with result
loadedAlerts(al, result) ==
    IF ~result.rejected /\ result.alertsSuccess
    THEN updateAlerts(al, result.alerts) ELSE al

\* socket.on('initial_data', data => this.handleInitialData(data))
handleInitialData(data) ==
    /\ socketOpen
    /\ sensorsData' = initialDataStore(sensorsData, data)
    /\ systemStatus' = IF data.hasStatus THEN updateSystemStatus(data.system_status)
                       ELSE systemStatus
    /\ alerts' = initialDataAlerts(alerts, data)
    /\ last' = Step("initial_data", FALSE, "none", {})
    /\ UNCHANGED <<charts, received, firstSeen, pendingActions>>
    /\ UNCHANGED_Connection

\* The awaits of one loadInitialData() call settle.
loadInitialDataSettles(result) ==
    /\ inFlight > 0
    /\ inFlight' = inFlight - 1
    /\ sensorsData' = loadedStore(sensorsData, result)
    /\ alerts' = loadedAlerts(alerts, result)
    /\ last' = Step("loaded", FALSE, IF result.rejected THEN "error" ELSE "none", {})
    /\ UNCHANGED <<charts, received, firstSeen, systemStatus, pendingActions>>
    /\ UNCHANGED <<isConnected, healthCheckInterval, socketOpen>>

\* socket.on('new_alert', alert => this.handleNewAlert(alert))
handleNewAlert(alert) ==
    /\ socketOpen
    /\ Len(alerts) < MaxAlerts
    /\ alerts' = addNewAlert(alerts, alert)
    /\ last' = Step("new_alert", FALSE, "warning", {})
    /\ UNCHANGED <<systemStatus, pendingActions>>
    /\ UNCHANGED_Store
    /\ UNCHANGED_Connection

\* socket.on('system_status_update', status => this.handleSystemStatusUpdate(status))
handleSystemStatusUpdate(status) ==
    /\ socketOpen
    /\ systemStatus' = updateSystemStatus(status)
    /\ last' = Step("system_status_update", FALSE, "none", {})
    /\ UNCHANGED <<alerts, pendingActions>>
    /\ UNCHANGED_Store
    /\ UNCHANGED_Connection


(***************************************************************************)
(* window.acknowledgeAlert and window.resolveAlert.                        *)
(***************************************************************************)
Listed(al, id) == \E i \in 1..Len(al) : al[i].id = id

\* What the server may answer: success, { success: false }, or a failed request.
\* An id it does not know is never answered with success.
serverResponses(listed) ==
    IF listed THEN {"success", "failure", "error"} ELSE {"failure", "error"}

\* The notification the .then / .catch of the request shows.
actionNotification(response) ==
    CASE response = "success" -> "success"
      [] response = "error" -> "error"
      [] OTHER -> "none"

\* the alert list after the response to acknowledge / resolve was handled
actionAlerts(al, request, response) == al

\* window.acknowledgeAlert(alertId) / window.resolveAlert(alertId): the fetch is sent
requestAction(kind, alertId) ==
    /\ Cardinality(pendingActions) < MaxPending
    /\ pendingActions' = pendingActions \cup
           {[kind |-> kind, id |-> alertId]}
    /\ last' = Step(kind, FALSE, "none", {})
    /\ UNCHANGED <<alerts, systemStatus>>
    /\ UNCHANGED_Store
    /\ UNCHANGED_Connection

acknowledgeAlert(alertId) == requestAction("acknowledge", alertId)

resolveAlert(alertId) == requestAction("resolve", alertId)

\* The promise chain of one request settles.
actionSettles(request, response) ==
    /\ request \in pendingActions
    /\ response \in serverResponses(Listed(alerts, request.id))
    /\ pendingActions' = pendingActions \ {request}
    /\ alerts' = actionAlerts(alerts, request, response)
    /\ last' = StepAbout("settled", FALSE, actionNotification(response), {},
                         [kind |-> request.kind, id |-> request.id,
                          listed |-> Listed(alerts, request.id),
                          response |-> response])
    /\ UNCHANGED systemStatus
    /\ UNCHANGED_Store
    /\ UNCHANGED_Connection

(***************************************************************************)
(* Specifications.                                                         *)
(***************************************************************************)
TotalReceived == LET Sum[S \in SUBSET AllIds] ==
                         IF S = {} THEN 0
                         ELSE LET s == CHOOSE x \in S : TRUE
                              IN Len(received[s]) + Sum[S \ {s}]
                 IN Sum[AllIds]

NoChart == [present |-> FALSE, labels |-> <<>>, datasets |-> <<>>]
EmptyChart == [present |-> TRUE, labels |-> <<>>, datasets |-> <<>>]

\* After the constructor: init() has run and the first loadInitialData() is pending.
InitWith(chartStates) ==
    /\ sensorsData = <<>>
    /\ charts \in [temperature : chartStates, humidity : chartStates]
    /\ isConnected = FALSE
    /\ healthCheckInterval = TRUE
    /\ socketOpen = TRUE
    /\ inFlight = 1
    /\ alerts = <<>>
    /\ systemStatus = "none"
    /\ pendingActions = {}
    /\ received = [s \in AllIds |-> <<>>]
    /\ firstSeen = <<>>
    /\ last = Step("init", FALSE, "none", {})

Init == InitWith({EmptyChart})

\* The same, with either canvas possibly missing from the page.
InitAnyPage == InitWith({EmptyChart, NoChart})

\* The payload of 'realtime_data' for sensor s at instant t.  shape "nested" is
\* { sensor_id, timestamp, data: { data: { temperature, humidity, co2 }, .. } };
\* "flat" has the metrics directly under data; "missing" has no data at all.
Reading(s, t, shape) ==
    [sensor_id |-> s, timestamp |-> t, shape |-> shape,
     temperature |-> 20 + t, humidity |-> 40 + t, co2 |-> 400 + 10 * t]

\* Reading payloads of the session specification.
SessionReadings == {Reading("hvac_kitchen", 1, shape) : shape \in {"nested", "missing"}}

\* Reading payloads of the aggregation specification.
AggregateIds == {"hvac_office_a1", "7", "3"}
AggregateReadings ==
    {Reading(s, t, "nested") : s \in AggregateIds, t \in Times}
    \cup {Reading(s, 1, shape) : s \in AggregateIds, shape \in Malformed}

\* The k-th instant at which a sensor of the stream specification reports.
StreamTime(s, k) == IF s = "hvac_office_a1" THEN k ELSE 3 * k

StreamBound(s) == IF s = "hvac_office_a1" THEN MaxStream ELSE MaxSideStream

StreamReading(s) ==
    LET k == Len(received[s]) + 1
    IN [sensor_id |-> s, timestamp |-> StreamTime(s, k), shape |-> "nested",
        temperature |-> 20 + (k % 3), humidity |-> 40 + (k % 2), co2 |-> 400 + k]

Next ==
    \/ \E data \in SessionReadings :
          /\ data.shape = "nested" => TotalReceived < MaxSessionReadings
          /\ handleRealtimeData(data)
    \/ updateChartsCall
    \/ connect
    \/ disconnect
    \/ socketError
    \/ healthCheckTick
    \/ refreshShortcut
    \/ cleanup
    \/ \E data \in InitialPayloads : handleInitialData(data)
    \/ \E result \in LoadResults : loadInitialDataSettles(result)
    \/ \E alert \in NewAlerts : handleNewAlert(alert)
    \/ \E status \in StatusNames : handleSystemStatusUpdate(status)
    \/ \E id \in AlertIds : acknowledgeAlert(id)
    \/ \E id \in AlertIds : resolveAlert(id)
    \/ \E request \in pendingActions, response \in {"success", "failure", "error"} :
          actionSettles(request, response)

Spec == Init /\ [][Next]_vars

NextAggregate ==
    \/ \E data \in AggregateReadings :
          /\ data.shape = "nested" => TotalReceived < MaxReadings
          /\ handleRealtimeData(data)
    \/ updateChartsCall

SpecAggregate == Init /\ [][NextAggregate]_vars

NextStream ==
    \/ \E s \in {"hvac_office_a1", "hvac_kitchen"} :
          /\ Len(received[s]) < StreamBound(s)
          /\ handleRealtimeData(StreamReading(s))
    \/ updateChartsCall

SpecStream == InitAnyPage /\ [][NextStream]_vars

\* Reading payloads of the whole-session specification with two sensors: the
\* well-formed ones carry the arrival count as their instant.
FrameIds == {"hvac_kitchen", "7"}
FrameReadings ==
    {Reading(s, t, shape) : s \in FrameIds, t \in Times, shape \in {"nested", "missing"}}

NextFrame ==
    \/ \E data \in FrameReadings :
          /\ data.shape = "nested" =>
                /\ TotalReceived < MaxFrameReadings
                /\ data.timestamp = TotalReceived + 1
          /\ data.shape = "missing" => data.timestamp = 1
          /\ handleRealtimeData(data)
    \/ connect
    \/ disconnect
    \/ socketError
    \/ healthCheckTick
    \/ cleanup
    \/ \E data \in InitialPayloads : handleInitialData(data)
    \/ \E result \in LoadResults : loadInitialDataSettles(result)
    \/ \E alert \in NewAlerts : handleNewAlert(alert)
    \/ \E status \in StatusNames : handleSystemStatusUpdate(status)

SpecFrame == Init /\ [][NextFrame]_vars


(***************************************************************************)
(* Properties.                                                             *)
(***************************************************************************)
\* The last n elements of seq (all of it when it is shorter), in order.
LastN(seq, n) ==
    LET m == Min(Len(seq), n)
    IN [j \in 1..m |-> seq[Len(seq) - m + j]]

\* Every instant a reading in some buffer carries.
StoredInstants(sd) ==
    {sd[i].points[j].timestamp : <<i, j>> \in
        {<<i, j>> \in (1..Len(sd)) \X (1..MaxPoints) : j <= Len(sd[i].points)}}

Range(seq) == {seq[i] : i \in 1..Len(seq)}

\* C1: after every reading event each sensor's buffer holds at most 50
\* readings, and they are exactly the last min(k, 50) of the k readings received
\* for that sensor so far, in arrival order.
C1_BufferIsLastFifty ==
    \A i \in 1..Len(sensorsData) :
        /\ Len(sensorsData[i].points) <= MaxPoints
        /\ sensorsData[i].points = LastN(received[sensorsData[i].id], MaxPoints)

\* C1 witness: a sensor has received more than 50 readings and its buffer is full.
C1_Witness ==
    /\ last.event = "realtime_data"
    /\ \E i \in 1..Len(sensorsData) :
          /\ Len(received[sensorsData[i].id]) > MaxPoints
          /\ Len(sensorsData[i].points) = MaxPoints

\* C3: the Timeline an aggregation pass computes from the buffers is strictly
\* ascending (so free of duplicates), has min(20, D) instants where D is the
\* number of distinct instants stored, and holds the most recent of them.
C3_TimelineIsLatestDistinct ==
    LET T == uniqueTimestamps(sensorsData)
        D == StoredInstants(sensorsData)
    IN /\ \A i \in 1..Len(T), j \in 1..Len(T) : i < j => T[i] < T[j]
       /\ Len(T) = Min(TimelineWindow, Cardinality(D))
       /\ Range(T) \subseteq D
       /\ \A t \in D \ Range(T) : \A u \in Range(T) : t < u

\* C3 witness: more than 20 distinct instants are stored, two sensors hold a
\* reading at one and the same instant, and a pass has drawn the charts.
C3_Witness ==
    /\ last.rendered # {}
    /\ Cardinality(StoredInstants(sensorsData)) > TimelineWindow
    /\ Len(charts.temperature.labels) = TimelineWindow
    /\ \E i \in 1..Len(sensorsData), j \in 1..Len(sensorsData) :
          /\ i # j
          /\ StoredInstants(<<sensorsData[i]>>) \cap StoredInstants(<<sensorsData[j]>>)
                \cap Range(uniqueTimestamps(sensorsData)) # {}


\* The values sensor id has stored for a metric at instant t.
ValuesAt(sd, id, t, metric) ==
    {Get(sd, id)[j][metric] : j \in {j \in 1..Len(Get(sd, id)) : Get(sd, id)[j].timestamp = t}}

\* Dataset d of sensor id has one slot per Timeline instant: the sensor's value
\* where it has a reading at that instant, an absent (non-numeric) value elsewhere.
Aligned(sd, T, id, d, metric) ==
    /\ Len(d.data) = Len(T)
    /\ \A k \in 1..Len(T) :
          IF ValuesAt(sd, id, T[k], metric) # {}
          THEN d.data[k] \in ValuesAt(sd, id, T[k], metric)
          ELSE d.data[k] \notin Int

DatasetsOf(chart, id) ==
    {chart.datasets[i] : i \in {i \in 1..Len(chart.datasets) :
                                  chart.datasets[i].label = getSensorName(id)}}

\* points is not empty and holds no two readings of one instant
OneReadingPerInstant(points) ==
    /\ points # <<>>
    /\ \A i \in 1..Len(points), j \in 1..Len(points) :
          i # j => points[i].timestamp # points[j].timestamp

MetricOf(d) == IF d.yAxisID = "y" THEN "humidity" ELSE "co2"

\* C2: after an aggregation pass every dataset of a sensor has exactly one slot
\* per Timeline instant, in Timeline order, holding the sensor's value at that
\* instant or an explicit absent value.  (Stated for stores in which every
\* sensor has a reading and no sensor has two readings at one instant, the
\* case of the claim's example.)
C2_DatasetsAlignedToTimeline ==
    (last.rendered # {} /\ \A i \in 1..Len(sensorsData) : OneReadingPerInstant(sensorsData[i].points)) =>
        LET T == uniqueTimestamps(sensorsData)
        IN \A id \in Ids(sensorsData) :
              /\ \A d \in DatasetsOf(charts.temperature, id) :
                    Aligned(sensorsData, T, id, d, "temperature")
              /\ \A d \in DatasetsOf(charts.humidity, id) :
                    Aligned(sensorsData, T, id, d, MetricOf(d))

\* C4 as claimed: every disconnected notification that takes the flag from true
\* to false invokes a bulk load in that very step.
C4_DisconnectInvokesLoad ==
    [][(last'.event = "disconnect" /\ isConnected /\ ~isConnected')
          => inFlight' = inFlight + 1]_vars

\* C4 as amended: a disconnected notification invokes no bulk load itself; each
\* health-check tick processed while the flag is false invokes exactly one.
C4_LoadOnStaleTicksOnly ==
    [][/\ last'.event = "disconnect" => inFlight' = inFlight
       /\ (last'.event = "healthCheck" /\ ~isConnected) => inFlight' = inFlight + 1]_vars

\* C4 witness: a disconnected notification was processed and no load is in flight.
C4_Witness ==
    /\ last.event = "disconnect"
    /\ ~isConnected
    /\ inFlight = 0

\* C5: a connected notification sets the flag in the step that processes it,
\* also while a bulk load is in flight, and the settling of a bulk load (with
\* success or with failure) never changes the flag.
C5_ConnectIsImmediate ==
    [][/\ last'.event = "connect" => isConnected'
       /\ last'.event = "loaded" => isConnected' = isConnected]_vars

\* C5 witness: connected was processed while a bulk load was still in flight.
C5_Witness ==
    /\ last.event = "connect"
    /\ isConnected
    /\ inFlight > 0

UnknownIds == AlertIds \ ({a.id : a \in NewAlerts} \cup UNION {{l[i].id : i \in 1..Len(l)} : l \in AlertLists})

\* C7: an acknowledge of an alert id that is not in the alert list reports a
\* result to the caller when it settles and leaves the alert list unchanged.
C7_UnknownIdReported ==
    [][(/\ last'.event = "settled"
        /\ last'.about.kind = "acknowledge"
        /\ last'.about.id \in UnknownIds)
          => (alerts' = alerts /\ last'.notification # "none")]_vars

\* C8: in every aggregation pass the sensor observed k-th uses palette index
\* (k - 1) mod 8 in its temperature, humidity and CO2 datasets.  (Stated for
\* stores in which every sensor has a reading.)
C8_ColourByFirstSeen ==
    (last.rendered # {} /\ \A i \in 1..Len(sensorsData) : sensorsData[i].points # <<>>) =>
        \A k \in 1..Len(firstSeen) :
            \A d \in DatasetsOf(charts.temperature, firstSeen[k])
                      \cup DatasetsOf(charts.humidity, firstSeen[k]) :
                d.borderColor = (k - 1) % PaletteSize

\* C9: an aggregation pass over a store with no sensor computes an empty Timeline
\* and no dataset, calls update on neither chart and leaves the labels and
\* datasets of both charts as they were.
C9_EmptyStoreNoOp ==
    [][(last'.event = "updateCharts" /\ Len(sensorsData) = 0)
          => /\ uniqueTimestamps(sensorsData) = <<>>
             /\ temperatureDatasets(sensorsData, <<>>) = <<>>
             /\ humidityDatasets(sensorsData, <<>>) \o co2Datasets(sensorsData, <<>>) = <<>>
             /\ last'.rendered = {}
             /\ charts' = charts]_vars

\* C9 witness: updateCharts ran on the empty store with both charts on the page.
C9_Witness ==
    /\ last.event = "updateCharts"
    /\ Len(sensorsData) = 0
    /\ charts.temperature.present /\ charts.humidity.present

\* C10: a reading event whose payload lacks the expected fields changes neither
\* the set of buffers nor the contents of any buffer.
C10_MalformedDropped ==
    [][(last'.event = "realtime_data" /\ last'.threw) => sensorsData' = sensorsData]_vars

\* C11: an aggregation pass emits no dataset, in either chart, for a sensor
\* whose buffer holds no reading.
C11_NoDatasetWithoutReadings ==
    last.rendered # {} =>
        \A id \in Ids(sensorsData) :
            Get(sensorsData, id) = <<>> =>
                /\ DatasetsOf(charts.temperature, id) = {}
                /\ DatasetsOf(charts.humidity, id) = {}

NonDecreasing(points) ==
    \A i \in 1..Len(points), j \in 1..Len(points) :
        i < j => points[i].timestamp <= points[j].timestamp

\* C12 as claimed: every buffer is sorted by timestamp ascending, whatever the
\* order in which the readings arrive.
C12_BufferSorted ==
    \A i \in 1..Len(sensorsData) : NonDecreasing(sensorsData[i].points)

\* C12 as amended: a buffer ends with the reading received last for its sensor,
\* also when that reading is older than the one before it, and the buffer is
\* sorted whenever the sensor's readings arrived in timestamp order.
C12_ArrivalOrderKept ==
    \A i \in 1..Len(sensorsData) :
        LET points == sensorsData[i].points
            got == received[sensorsData[i].id]
        IN /\ points # <<>> => points[Len(points)] = got[Len(got)]
           /\ Len(points) = Min(Len(got), MaxPoints)
           /\ NonDecreasing(got) => NonDecreasing(points)

\* C12 witness: a reading older than the buffer's tail was appended at the tail.
C12_Witness ==
    /\ last.event = "realtime_data"
    /\ ~last.threw
    /\ \E i \in 1..Len(sensorsData) :
          LET points == sensorsData[i].points
          IN /\ Len(points) >= 2
             /\ points[Len(points)].timestamp < points[Len(points) - 1].timestamp

\* C13: when an acknowledge or resolve request is answered without success, or
\* fails, the alert list is left as it was and a failure notification is shown.
C13_FailureIsSurfaced ==
    [][(last'.event = "settled" /\ last'.about.response \in {"failure", "error"})
          => (alerts' = alerts /\ last'.notification = "error")]_vars

\* The point an event carries in its timestamp, temperature, humidity and co2.
Carried(data) ==
    [timestamp |-> data.timestamp, temperature |-> data.temperature,
     humidity |-> data.humidity, co2 |-> data.co2]

\* The step appends exactly the event's reading to the buffer of its sensor.
AppendsReading(data) ==
    LET id == data.sensor_id
        old == IF Has(sensorsData, id) THEN Get(sensorsData, id) ELSE <<>>
    IN /\ Has(sensorsData', id)
       /\ Get(sensorsData', id) = LastN(old \o <<Carried(data)>>, MaxPoints)
       /\ Len(received'[id]) = Len(received[id]) + 1

\* The step is handleRealtimeData(data).  The first three conjuncts follow from
\* the fourth (lines 256-261 run to the end exactly for the nested shape); they
\* come first so that the handler is evaluated for the payload of the step only.
Handles(data) ==
    /\ last'.event = "realtime_data"
    /\ last'.threw = (data.shape # "nested")
    /\ (received'[data.sensor_id] # received[data.sensor_id]) = (data.shape = "nested")
    /\ handleRealtimeData(data)

\* C14 as claimed: an event of the shape { sensor_id, timestamp, data: {
\* temperature, humidity, co2, occupancy }, system_status } appends exactly one
\* reading, with the event's values, to the buffer of sensor_id.
C14_FlatShapeRecorded ==
    [][\A data \in AggregateReadings :
          (data.shape = "flat" /\ handleRealtimeData(data)) => AppendsReading(data)]_vars

\* C14 as amended: an event of the shape { sensor_id, timestamp, data: { data: {
\* temperature, humidity, co2, occupancy }, system_status } } appends exactly
\* one reading, with the event's values, to the buffer of sensor_id, creating
\* the buffer if absent; an event with the metrics directly under data appends
\* nothing.
C14_NestedShapeRecorded ==
    [][\A data \in AggregateReadings :
          Handles(data) =>
              IF data.shape = "nested" THEN AppendsReading(data)
              ELSE /\ received' = received
                   /\ \A i \in 1..Len(sensorsData) : sensorsData'[i] = sensorsData[i]]_vars

\* C14 witness: a nested event was recorded for a sensor that had no buffer.
C14_Witness ==
    /\ last.event = "realtime_data"
    /\ ~last.threw
    /\ Len(sensorsData) = 1
    /\ Len(sensorsData[1].points) = 1

\* C15 as claimed: once the health check has ticked through the silence
\* threshold with no event in between, the connection flag is false.
C15_SilenceMakesStale ==
    last.silent >= MaxSilentTicks => ~isConnected

\* C15 as amended: silence alone never changes the connection flag.  The flag
\* goes from true to false only in the step that processes a disconnected
\* notification or runs cleanup(); a health-check tick leaves it as it is.
C15_OnlyDisconnectMakesStale ==
    [][/\ (isConnected /\ ~isConnected') => last'.event \in {"disconnect", "cleanup"}
       /\ last'.event = "healthCheck" => isConnected' = isConnected]_vars

\* C15 witness: the flag is still true after the health check has ticked through
\* the silence threshold with no event in between.
C15_Witness ==
    /\ isConnected
    /\ last.event = "healthCheck"
    /\ last.silent = MaxSilentTicks

\* cleanup() has run: it is the only step that closes the socket.
CleanedUp == ~socketOpen

\* C16: a health-check tick starts a bulk load only if the connection flag is
\* false when the tick is processed, a tick processed while the flag is true
\* starts none, and no tick is processed once cleanup() has run.
C16_TickLoadsOnlyWhenStale ==
    [][last'.event = "healthCheck" =>
          /\ inFlight' # inFlight => ~isConnected
          /\ isConnected => inFlight' = inFlight
          /\ ~CleanedUp]_vars

\* C16 witness: a tick was processed while the flag was true and no load is in
\* flight.
C16_Witness ==
    /\ last.event = "healthCheck"
    /\ last.silent = 1
    /\ isConnected
    /\ inFlight = 0

\* C17: only a reading event changes the series store, and only the entry of
\* its own sensor: it leaves every other sensor's buffer as it was and removes
\* none; every other step (connected, disconnected, error, alert, status,
\* initial_data, health-check tick, settled bulk load, cleanup) leaves the whole
\* store as it was.
C17_OnlyOwnReadingChangesStore ==
    [][/\ \A data \in FrameReadings :
             Handles(data) =>
                 /\ Len(sensorsData') >= Len(sensorsData)
                 /\ \A i \in 1..Len(sensorsData) :
                        /\ sensorsData'[i].id = sensorsData[i].id
                        /\ sensorsData[i].id # data.sensor_id =>
                               sensorsData'[i] = sensorsData[i]
       /\ last'.event # "realtime_data" => sensorsData' = sensorsData]_vars

\* C17 witness: with readings of both sensors in the store, a bulk load has
\* settled.
C17_Witness ==
    /\ last.event = "loaded"
    /\ last.notification = "none"
    /\ Len(sensorsData) = 2
    /\ \A i \in 1..Len(sensorsData) : sensorsData[i].points # <<>>

====
